---------------------------- MODULE Spec2Model ----------------------------
(***************************************************************************)
(* Model of handlers/delta_downloader.c: the range-fetch IPC worker.       *)
(*                                                                         *)
(* The worker reads range_request_t frames from sw_sockfd, drives one      *)
(* transfer per request through the channel (open / get_file / close) and  *)
(* relays header lines and body bytes as range_answer_t frames, ending     *)
(* each request with one RANGE_COMPLETED / RANGE_ERROR frame.              *)
(*                                                                         *)
(* Bytes are numbers 0..255 (0 is NUL).  Buffers are sequences, so the C   *)
(* index i is position i + 1 here.                                         *)
(***************************************************************************)
EXTENDS Integers, Sequences, FiniteSets, TLC

(* ------------------------------ bounds -------------------------------- *)

\* Payload capacity of a request and of an answer frame, scaled down from
\* 32 KiB.
RANGE_PAYLOAD_SIZE == 5
\* Callback invocations per transfer.
MaxCallbacks == 2

(* ------------------------------ bytes --------------------------------- *)

NUL == 0
Colon == 58
Slash == 47

Min(a, b) == IF a < b THEN a ELSE b

RECURSIVE Xor(_, _)
\* Bitwise exclusive or of two naturals.
Xor(a, b) ==
    IF a = 0 THEN b
    ELSE IF b = 0 THEN a
    ELSE ((a + b) % 2) + 2 * Xor(a \div 2, b \div 2)

\* A uint32_t is held as its two 16-bit halves <<high, low>>.
Xor32(x, y) == <<Xor(x[1], y[1]), Xor(x[2], y[2])>>

\* x >> n for a uint32_t, n in {1, 8} given as the divisor 2^n.
Shr32(x, d) == <<x[1] \div d, (x[2] \div d) + (x[1] % d) * (65536 \div d)>>

RECURSIVE CrcBits(_, _)
\* k rounds of the reflected CRC-32 shift register (polynomial 0xEDB88320).
CrcBits(c, k) ==
    IF k = 0 THEN c
    ELSE CrcBits(IF c[2] % 2 = 1 THEN Xor32(Shr32(c, 2), <<60856, 33568>>)
                 ELSE Shr32(c, 2), k - 1)

\* zlib's byte table.
CrcTable == [b \in 0..255 |-> CrcBits(<<0, b>>, 8)]

RECURSIVE CrcUpdate(_, _)
CrcUpdate(c, bytes) ==
    IF bytes = << >> THEN c
    ELSE CrcUpdate(Xor32(CrcTable[Xor(c[2] % 256, Head(bytes))], Shr32(c, 256)),
                   Tail(bytes))

\* zlib crc32(crc, buf, len): 32-bit CRC of bytes, continued from crc.
crc32(crc, bytes) ==
    Xor32(CrcUpdate(Xor32(crc, <<65535, 65535>>), bytes), <<65535, 65535>>)

(* ------------------------- frames and buffers ------------------------- *)

\* range_request_t as the cells read() fills, in layout order: the header
\* fields, then the payload bytes.
ReqCells(r) == <<r.id, r.urllen, r.rangelen>> \o r.data

\* The request a buffer of cells holds.
ReqOfCells(c) ==
    [id |-> c[1], urllen |-> c[2], rangelen |-> c[3],
     data |-> SubSeq(c, 4, Len(c))]

\* sizeof(range_request_t), in cells.
ReqSize == Len(ReqCells([id |-> 0, urllen |-> 0, rangelen |-> 0,
                         data |-> [i \in 1..RANGE_PAYLOAD_SIZE |-> NUL]]))

\* read(sw_sockfd, req, sizeof(range_request_t)) returning ret >= 0: the first
\* ret cells of the buffer are overwritten by the message, the rest is kept.
ReadInto(buf, msg, ret) ==
    ReqOfCells([i \in 1..ReqSize |->
                  IF i <= ret THEN ReqCells(msg)[i] ELSE ReqCells(buf)[i]])

\* The length check of the request loop.
MalformedMut(r, ret) == FALSE
Malformed(r, ret) == (r.urllen + r.rangelen) > ret

\* The bytes a C string function sees from &req->data[0] on: the payload,
\* then whatever the heap holds behind the buffer (tail), up to a NUL.
Mem(data, tail) == data \o tail \o <<NUL>>

RECURSIVE strchr(_, _, _)
\* strchr from position i: the position of the first byte equal to c, 0 (NULL)
\* when the terminating NUL comes first.
strchr(mem, i, c) ==
    IF mem[i] = c THEN i
    ELSE IF mem[i] = NUL THEN 0
    ELSE strchr(mem, i + 1, c)

RECURSIVE CStr(_, _)
\* The C string that starts at position i: the bytes before the first NUL.
CStr(mem, i) ==
    IF i > Len(mem) \/ mem[i] = NUL THEN << >>
    ELSE <<mem[i]>> \o CStr(mem, i + 1)

\* Whether a C string function scanning the payload runs off its end.
Unterminated(r) == \A i \in 1..Len(r.data) : r.data[i] # NUL \/ i < r.urllen + 2

\* No configured base URL (delta_downloader_base_url == NULL).
NoBase == << >>

\* Whether the request URL is taken as relative: cp == NULL, or the first
\* colon is not followed by two slashes.
IsRelativeMut(mem) ==
    LET cp == strchr(mem, 1, Colon)
    IN  cp = 0 \/ mem[cp + 1] # Slash
IsRelative(mem) ==
    LET cp == strchr(mem, 1, Colon)
    IN  cp = 0 \/ mem[cp + 1] # Slash \/ mem[cp + 2] # Slash

\* Whether a URL buffer is composed (url != NULL after the if).
Composes(b, mem) == b # NoBase /\ IsRelative(mem)

\* channel_data.url: strcpy(base) + strcat(req->data), or req->data itself.
EffectiveUrl(b, mem) ==
    IF Composes(b, mem) THEN b \o CStr(mem, 1) ELSE CStr(mem, 1)

\* The size of the buffer allocated for the composed URL.
UrlAlloc(r, b) == r.urllen + Len(b) + 1

\* The bytes strcpy and strcat write into it: the base, the request URL up
\* to its NUL, and the NUL.
UrlWritten(b, mem) == Len(b) + Len(CStr(mem, 1)) + 1

\* channel_data.range = &req->data[req->urllen + 1].
RangeOf(r, mem) == CStr(mem, r.urllen + 2)

\* The bytes memcpy reads for the slice that follows `done` consumed bytes:
\* the callback passes `buffer` itself on every round of its loop.
MemcpySrc(buffer, done) == buffer

\* The checksum stored in a DATA frame whose payload is data, len bytes used.
FrameCrcMut(data, len) == crc32(<<0, 0>>, data)
FrameCrc(data, len) == crc32(<<0, 0>>, SubSeq(data, 1, len))

\* answer->id as the callbacks set it, from dwl->id.
CallbackIdMut(ans, dwlid) == ans.id
CallbackId(ans, dwlid) == dwlid

\* One round of the data callback's loop: the answer buffer after the id,
\* type, len, memcpy and crc assignments, nbytes still to send.
DataFrame(ans, dwlid, src, nbytes) ==
    LET l == Min(nbytes, RANGE_PAYLOAD_SIZE)
        d == [i \in 1..RANGE_PAYLOAD_SIZE |-> IF i <= l THEN src[i] ELSE ans.data[i]]
    IN  [id |-> CallbackId(ans, dwlid), type |-> "RANGE_DATA", len |-> l,
         crc |-> FrameCrc(d, l), data |-> d]

\* The HTTP status the data callback accepts.
StatusAcceptedMut(code) == code \in {200, 206}
StatusAccepted(code) == code = 206

\* Whether the data callback returns after a write that failed.
StopsOnWriteErrorMut(failed) == FALSE
StopsOnWriteError(failed) == failed

\* nbytes -= answer->len: the bytes still to send after a frame of len bytes.
RemainingMut(nbytes, len) == 0
Remaining(nbytes, len) == nbytes - len

RECURSIVE WrLoop(_, _, _, _, _, _, _)
\* while (nbytes > 0) of the data callback.  failAt is the round whose write
\* fails (0: none); st carries the answer buffer, the frames written, the
\* bytes memcpy read for each, whether a write failed, and the highest index
\* of answer->data stored to (top, -1: none).
WrLoop(st, dwlid, buffer, total, nbytes, k, failAt) ==
    IF nbytes = 0 THEN [st EXCEPT !.ret = total]
    ELSE LET a      == DataFrame(st.answer, dwlid,
                                 MemcpySrc(buffer, total - nbytes), nbytes)
             failed == (k = failAt)
             st2    == [answer |-> a,
                        frames |-> IF failed THEN st.frames
                                   ELSE Append(st.frames, a),
                        copied |-> IF failed THEN st.copied
                                   ELSE Append(st.copied,
                                          SubSeq(MemcpySrc(buffer, total - nbytes),
                                                 1, a.len)),
                        failed |-> st.failed \/ failed,
                        top    |-> IF a.len - 1 > st.top THEN a.len - 1
                                   ELSE st.top,
                        ret    |-> 0]
         IN  IF StopsOnWriteError(failed) THEN st2
             ELSE WrLoop(st2, dwlid, buffer, total, Remaining(nbytes, a.len),
                         k + 1, failAt)

\* wrdata_callback(buffer, 1, nmemb, data) with status code: the answer
\* buffer left behind, the frames written and the value returned.
WrData(ans, dwlid, code, buffer, failAt) ==
    LET idle == [answer |-> ans, frames |-> << >>, copied |-> << >>,
                 failed |-> FALSE, top |-> -1, ret |-> 0]
    IN  IF Len(buffer) = 0 THEN idle
        ELSE IF ~StatusAccepted(code) THEN idle
        ELSE WrLoop(idle, dwlid, buffer, Len(buffer), Len(buffer), 1, failAt)

\* The bytes of a header line of n bytes that memcpy copies into the frame.
HeaderCopyLenMut(n) == Min(n, RANGE_PAYLOAD_SIZE)
HeaderCopyLen(n) == Min(n, RANGE_PAYLOAD_SIZE - 2)

\* The index of answer->data (from 0) where the header callback stores the
\* NUL: answer->len after the increment.
HeaderNulIdx(l) == l + 1

\* The highest index of answer->data the header callback stores to.
HeaderTop(n) == HeaderNulIdx(HeaderCopyLen(n))

\* The answer buffer as delta_callback_headers fills it for a header line; a
\* store past the end of data does not land in data.
HeaderFrame(ans, dwlid, buffer) ==
    LET l  == HeaderCopyLen(Len(buffer))
        d  == [i \in 1..RANGE_PAYLOAD_SIZE |-> IF i <= l THEN buffer[i] ELSE ans.data[i]]
        l2 == l + 1
    IN  [id |-> CallbackId(ans, dwlid), type |-> "RANGE_HEADERS", len |-> l2,
         crc |-> ans.crc,
         data |-> IF HeaderNulIdx(l) < RANGE_PAYLOAD_SIZE
                  THEN [d EXCEPT ![HeaderNulIdx(l) + 1] = NUL]
                  ELSE d]

\* The type of the terminal answer for a transfer result.
TerminalTypeMut(transfer) == "RANGE_COMPLETED"
TerminalType(transfer) ==
    IF transfer = "CHANNEL_OK" THEN "RANGE_COMPLETED" ELSE "RANGE_ERROR"

\* The id of the terminal answer.
TerminalId(ans, r) == r.id

\* The terminal answer: id, type and len are set, crc and data are left.
TerminalAnswerMut(ans, r, transfer) ==
    [ans EXCEPT !.id = TerminalId(ans, r), !.type = TerminalType(transfer)]
TerminalAnswer(ans, r, transfer) ==
    [ans EXCEPT !.id = TerminalId(ans, r), !.type = TerminalType(transfer),
                !.len = 0]

(* ------------------------------ inputs -------------------------------- *)

\* Request frames the controller sends: a relative URL, an absolute URL,
\* and one whose length fields exceed any read.
Msgs ==
    { [id |-> 1, urllen |-> 1, rangelen |-> 1,
       data |-> [i \in 1..RANGE_PAYLOAD_SIZE |->
                   IF i = 1 THEN 97 ELSE IF i = 3 THEN 114 ELSE NUL]],
      [id |-> 2, urllen |-> 3, rangelen |-> 0,
       data |-> [i \in 1..RANGE_PAYLOAD_SIZE |->
                   IF i = 1 THEN Colon ELSE IF i \in {2, 3} THEN Slash
                   ELSE NUL]],
      [id |-> 3, urllen |-> ReqSize, rangelen |-> ReqSize,
       data |-> [i \in 1..RANGE_PAYLOAD_SIZE |-> 97]] }

\* What read() returns: an error, end of file, the header alone, a full frame.
ReadRets == {-1, 0, ReqSize}

\* Bytes the heap may hold behind the request buffer.
Tails == {<< >>, <<170>>}

\* The tails that make a difference to the request a read leaves behind.
TailsFor(buf, msg, ret) ==
    IF ret >= 0 /\ Unterminated(ReadInto(buf, msg, ret)) THEN Tails ELSE {<< >>}

\* delta_downloader_base_url after start-up.
Bases == {NoBase, <<98, Slash>>}

\* HTTP status codes of a response.
HttpCodes == {200, 206}

\* Results of channel->get_file.
Results == {"CHANNEL_OK", "CHANNEL_EIO"}

\* The response body as the transport delivers it: the n bytes that follow
\* the first off bytes.
BodyBytes(off, n) == [i \in 1..n |-> ((off + i - 1) % 255) + 1]

\* A header line of n bytes.
HeaderLine(n) == [i \in 1..n |-> 64 + i]

\* A malloc'ed buffer before its first use: zeroed pages, or old heap bytes.
HeapBytes == {0, 170}

InitReq(v) ==
    [id |-> v, urllen |-> v, rangelen |-> v,
     data |-> [i \in 1..RANGE_PAYLOAD_SIZE |-> v]]

InitAnswer(v) ==
    [id |-> v, type |-> "RANGE_GET", len |-> v, crc |-> <<v, v>>,
     data |-> [i \in 1..RANGE_PAYLOAD_SIZE |-> v]]

(* ------------------------------- state -------------------------------- *)

VARIABLES
    pc,        \* "await": at read(); "transfer": inside get_file; "exited"
    req,       \* *req, the reused request buffer
    answer,    \* *answer, the reused answer buffer
    priv,      \* the dwl_data_t handed to the callbacks
    base,      \* delta_downloader_base_url
    url,       \* channel_data.url, as a string
    range,     \* channel_data.range, as a string
    code,      \* channel_data.http_response_code
    chan,      \* the channel session: "closed" or "open"
    stopped,   \* a callback returned the stop signal to the transport
    out,       \* frames written to sw_sockfd since read() last returned
    copied,    \* for each frame of out, the bytes memcpy read for it
    body,      \* body bytes the transport has passed to the data callback
    lastcb,    \* the last callback invocation and what it returned
    cyc,       \* the current dispatch cycle
    lastread,  \* what the last pass through read() did
    ncb        \* callback invocations in this transfer

vars == <<pc, req, answer, priv, base, url, range, code, chan, stopped, out,
          copied, body, lastcb, cyc, lastread, ncb>>

NoCallback ==
    [kind |-> "none", n |-> 0, ret |-> 0, frames |-> 0, failed |-> FALSE,
     failAt |-> 0, top |-> -1]

NoCycle ==
    [phase |-> "none", rid |-> 0, openok |-> FALSE, transfer |-> "none",
     termok |-> FALSE, wfail |-> FALSE]

Init ==
    /\ pc = "await"
    /\ \E v \in HeapBytes : req = InitReq(v) /\ answer = InitAnswer(v)
    /\ priv = [id |-> 0]
    /\ base \in Bases
    /\ url = << >>
    /\ range = << >>
    /\ code = 0
    /\ chan = "closed"
    /\ stopped = FALSE
    /\ out = << >>
    /\ copied = << >>
    /\ body = << >>
    /\ lastcb = NoCallback
    /\ cyc = NoCycle
    /\ lastread = [ret |-> 0, outcome |-> "none"]
    /\ ncb = 0

(* ------------------------------ actions ------------------------------- *)

\* A pass of the loop that writes nothing and calls no callback.
Quiet ==
    /\ out' = << >>
    /\ copied' = << >>
    /\ body' = << >>
    /\ stopped' = FALSE
    /\ lastcb' = NoCallback
    /\ cyc' = NoCycle
    /\ ncb' = 0

\* Where the loop goes after the write of the terminal answer: a failed write
\* is logged and the loop goes on to close and the next read.
AfterTerminalWriteMut(termok) == IF termok THEN "await" ELSE "exited"
AfterTerminalWrite(termok) == "await"

\* channel->open returned CHANNEL_OK: get_file starts, the transport sets the
\* response status.
OpenOkMut(r) ==
    /\ pc' = "transfer"
    /\ chan' = "open"
    /\ code' \in HttpCodes
    /\ \E a \in {TerminalAnswer(answer, r, "CHANNEL_OK")} :
          /\ answer' = a
          /\ out' = <<a>>
    /\ copied' = << << >> >>
    /\ cyc' = [NoCycle EXCEPT !.phase = "transfer", !.rid = r.id,
                              !.openok = TRUE]
OpenOk(r) ==
    /\ pc' = "transfer"
    /\ chan' = "open"
    /\ code' \in HttpCodes
    /\ out' = << >>
    /\ copied' = << >>
    /\ cyc' = [NoCycle EXCEPT !.phase = "transfer", !.rid = r.id,
                              !.openok = TRUE]
    /\ UNCHANGED answer

\* channel->open failed: transfer = CHANNEL_EINIT, the terminal answer is
\* written (termok: write() wrote the whole frame) and the channel closed.
OpenFailed(r) ==
    \E termok \in BOOLEAN :
       /\ pc' = AfterTerminalWrite(termok)
       /\ chan' = "closed"
       /\ \E a \in {TerminalAnswer(answer, r, "CHANNEL_EINIT")} :
             /\ answer' = a
             /\ out' = IF termok THEN <<a>> ELSE << >>
       /\ copied' = IF termok THEN << << >> >> ELSE << >>
       /\ cyc' = [NoCycle EXCEPT !.phase = "done", !.rid = r.id,
                                 !.transfer = "CHANNEL_EINIT",
                                 !.termok = termok]
       /\ UNCHANGED code

\* The request loop from priv.writefd = sw_sockfd to channel->open, for the
\* request r just accepted.
Dispatch(r, mem, ret) ==
    /\ priv' = [id |-> r.id]
    /\ url' = EffectiveUrl(base, mem)
    /\ range' = RangeOf(r, mem)
    /\ lastread' = [ret |-> ret, outcome |-> "dispatched"]
    /\ ncb' = 0
    /\ stopped' = FALSE
    /\ body' = << >>
    /\ lastcb' = NoCallback
    /\ (OpenOk(r) \/ OpenFailed(r))

\* One pass of the request loop from read() on: read returns ret with the
\* bytes of msg, the heap behind the buffer holds tail.
ReadRequest(ret, msg, tail) ==
    /\ pc = "await"
    /\ UNCHANGED base
    /\ IF ret < 0
       THEN /\ pc' = "exited"
            /\ lastread' = [ret |-> ret, outcome |-> "exit"]
            /\ Quiet
            /\ UNCHANGED <<req, answer, priv, url, range, code, chan>>
       ELSE \E r \in {ReadInto(req, msg, ret)} :
            \E mem \in {Mem(r.data, tail)} :
            /\ req' = r
            /\ IF Malformed(r, ret)
               THEN /\ pc' = "await"
                    /\ lastread' = [ret |-> ret, outcome |-> "malformed"]
                    /\ Quiet
                    /\ UNCHANGED <<answer, priv, url, range, code, chan>>
               ELSE \/ Dispatch(r, mem, ret)
                    \/ /\ Composes(base, mem)     \* malloc returns NULL
                       /\ pc' = "exited"
                       /\ priv' = [id |-> r.id]
                       /\ lastread' = [ret |-> ret, outcome |-> "exit"]
                       /\ Quiet
                       /\ UNCHANGED <<answer, url, range, code, chan>>
                    \/ /\ Composes(base, mem)     \* strcat runs past url
                       /\ UrlWritten(base, mem) > UrlAlloc(r, base)
                       /\ pc' = "exited"
                       /\ priv' = [id |-> r.id]
                       /\ lastread' = [ret |-> ret, outcome |-> "crash"]
                       /\ Quiet
                       /\ UNCHANGED <<answer, url, range, code, chan>>

\* The transport calls wrdata_callback with the next n body bytes; failAt is
\* the write of this invocation that fails (0: none).
wrdata_callback(n, failAt) ==
    /\ pc = "transfer"
    /\ ~stopped
    /\ \E buffer \in {BodyBytes(Len(body), n)} :
       \E res \in {WrData(answer, priv.id, code, buffer, failAt)} :
           /\ answer' = res.answer
           /\ out' = out \o res.frames
           /\ copied' = copied \o res.copied
           /\ body' = body \o buffer
           /\ stopped' = (res.ret # n)
           /\ lastcb' = [kind |-> "data", n |-> n, ret |-> res.ret,
                         frames |-> Len(res.frames), failed |-> res.failed,
                         failAt |-> IF res.failed THEN failAt ELSE 0,
                         top |-> res.top]
           /\ cyc' = [cyc EXCEPT !.wfail = @ \/ res.failed]
    /\ ncb' = ncb + 1
    /\ UNCHANGED <<pc, req, priv, base, url, range, code, chan, lastread>>

\* The transport calls delta_callback_headers with a header line of n bytes;
\* wok tells whether write() wrote the whole frame.
delta_callback_headers(n, wok) ==
    /\ pc = "transfer"
    /\ ~stopped
    /\ \E buffer \in {HeaderLine(n)}, ret \in {IF wok THEN n ELSE 0} :
       \E a \in {HeaderFrame(answer, priv.id, buffer)} :
           /\ answer' = a
           /\ out' = IF wok THEN Append(out, a) ELSE out
           /\ copied' = IF wok THEN Append(copied, SubSeq(buffer, 1, a.len - 1))
                        ELSE copied
           /\ stopped' = (ret # n)
           /\ lastcb' = [kind |-> "headers", n |-> n, ret |-> ret,
                         frames |-> IF wok THEN 1 ELSE 0, failed |-> ~wok,
                         failAt |-> IF wok THEN 0 ELSE 1,
                         top |-> HeaderTop(n)]
           /\ cyc' = [cyc EXCEPT !.wfail = @ \/ ~wok]
    /\ ncb' = ncb + 1
    /\ UNCHANGED <<pc, req, priv, base, url, range, code, chan, body,
                   lastread>>

\* What channel->get_file may return: not CHANNEL_OK once a callback has
\* signalled stop.
GetFileResults(stop) == IF stop THEN Results \ {"CHANNEL_OK"} ELSE Results

\* get_file returns; the terminal answer is written and the channel closed.
Complete(transfer, termok) ==
    /\ pc = "transfer"
    /\ transfer \in GetFileResults(stopped)
    /\ \E a \in {TerminalAnswer(answer, req, transfer)} :
          /\ answer' = a
          /\ out' = IF termok THEN Append(out, a) ELSE out
    /\ copied' = IF termok THEN Append(copied, << >>) ELSE copied
    /\ chan' = "closed"
    /\ pc' = AfterTerminalWrite(termok)
    /\ cyc' = [cyc EXCEPT !.phase = "done", !.transfer = transfer,
                          !.termok = termok]
    /\ UNCHANGED <<req, priv, base, url, range, code, stopped, body, lastcb,
                   lastread, ncb>>

(* --------------------------- specifications --------------------------- *)

\* Sizes of the chunks the transport passes to the data callback, and of
\* the header lines it passes to the header callback.
ChunkSizes == {0, 1, RANGE_PAYLOAD_SIZE + 1}
HeaderSizes == {1, RANGE_PAYLOAD_SIZE}

\* The worker loop: several requests in a row.
Read ==
    \E ret \in ReadRets :
       \E msg \in (IF ret <= 0 THEN {CHOOSE m \in Msgs : TRUE} ELSE Msgs) :
          \E tail \in TailsFor(req, msg, ret) : ReadRequest(ret, msg, tail)

Data ==
    /\ ncb < MaxCallbacks
    /\ \E n \in ChunkSizes, failAt \in 0..2 : wrdata_callback(n, failAt)

Headers ==
    /\ ncb < MaxCallbacks
    /\ \E n \in HeaderSizes, wok \in BOOLEAN : delta_callback_headers(n, wok)

Finish ==
    /\ \E transfer \in Results, termok \in BOOLEAN : Complete(transfer, termok)

Next == Read \/ Data \/ Headers \/ Finish

Spec == Init /\ [][Next]_vars

\* One transfer, with chunks of up to three frames and one byte more.
StreamChunks ==
    {0, 1, RANGE_PAYLOAD_SIZE - 1, RANGE_PAYLOAD_SIZE, RANGE_PAYLOAD_SIZE + 1,
     2 * RANGE_PAYLOAD_SIZE, 3 * RANGE_PAYLOAD_SIZE, 3 * RANGE_PAYLOAD_SIZE + 1}
StreamHeaders ==
    {1, RANGE_PAYLOAD_SIZE - 2, RANGE_PAYLOAD_SIZE - 1, RANGE_PAYLOAD_SIZE + 1}

ReadOnce ==
    /\ lastread.outcome = "none"
    /\ \E msg \in Msgs : ReadRequest(ReqSize, msg, << >>)

DataStream ==
    /\ ncb < MaxCallbacks
    /\ \E n \in StreamChunks, failAt \in 0..4 : wrdata_callback(n, failAt)

HeadersStream ==
    /\ ncb < MaxCallbacks
    /\ \E n \in StreamHeaders, wok \in BOOLEAN : delta_callback_headers(n, wok)

NextStream == ReadOnce \/ DataStream \/ HeadersStream \/ Finish

SpecStream == Init /\ [][NextStream]_vars

\* One request, with every NUL-terminated payload over a four-byte alphabet.
UrlPayloads ==
    { d \in [1..RANGE_PAYLOAD_SIZE -> {NUL, Colon, Slash, 97}] :
        d[RANGE_PAYLOAD_SIZE] = NUL }

ReadUrl ==
    /\ lastread.outcome = "none"
    /\ \E d \in UrlPayloads :
          ReadRequest(ReqSize,
                      [id |-> 1, urllen |-> Len(CStr(d, 1)), rangelen |-> 0,
                       data |-> d], << >>)

NextUrl == ReadUrl \/ Finish

SpecUrl == Init /\ [][NextUrl]_vars

\* The controller sends at most one request and closes its end: every later
\* read returns zero bytes.  The loop is scheduled as long as it can run.
ReadEof ==
    \E tail \in TailsFor(req, CHOOSE m \in Msgs : TRUE, 0) :
       ReadRequest(0, CHOOSE m \in Msgs : TRUE, tail)

NextEof == ReadOnce \/ ReadEof \/ Data \/ Headers \/ Finish

SpecEof == Init /\ [][NextEof]_vars /\ WF_vars(NextEof)

\* Requests arriving in reads of every length: nothing, the header fields
\* alone, the header and part of the payload, a full frame.
ShortRets ==
    {0, ReqSize - RANGE_PAYLOAD_SIZE, ReqSize - RANGE_PAYLOAD_SIZE + 2, ReqSize}

ReadShort ==
    \E ret \in ShortRets, msg \in Msgs :
       \E tail \in TailsFor(req, msg, ret) : ReadRequest(ret, msg, tail)

NextShort == ReadShort \/ Finish

SpecShort == Init /\ [][NextShort]_vars

\* One request whose urllen field is chosen independently of where the NUL
\* of its URL is.
ReadCompose ==
    /\ lastread.outcome = "none"
    /\ \E d \in UrlPayloads, n \in 0..RANGE_PAYLOAD_SIZE :
          ReadRequest(ReqSize,
                      [id |-> 1, urllen |-> n, rangelen |-> 0, data |-> d],
                      << >>)

NextCompose == ReadCompose \/ Finish

SpecCompose == Init /\ [][NextCompose]_vars

(* ------------------------------- claims ------------------------------- *)

IsStream(f) == f.type \in {"RANGE_DATA", "RANGE_HEADERS"}
IsTerminal(f) == f.type \in {"RANGE_COMPLETED", "RANGE_ERROR"}

\* frames is zero or more DATA/HEADERS frames.
StreamOnly(frames) == \A i \in 1..Len(frames) : IsStream(frames[i])

\* frames is zero or more DATA/HEADERS frames, then one terminal frame of
\* len 0.
Terminated(frames) ==
    /\ Len(frames) >= 1
    /\ \A i \in 1..(Len(frames) - 1) : IsStream(frames[i])
    /\ IsTerminal(frames[Len(frames)])
    /\ frames[Len(frames)].len = 0

RECURSIVE DataPayloads(_)
\* The first len payload bytes of every DATA frame, concatenated in order.
DataPayloads(frames) ==
    IF frames = << >> THEN << >>
    ELSE (IF Head(frames).type = "RANGE_DATA"
          THEN SubSeq(Head(frames).data, 1, Head(frames).len) ELSE << >>)
         \o DataPayloads(Tail(frames))

\* C1 as stated: once a valid request has been dispatched and its cycle is
\* over, the frames written for it are zero or more DATA/HEADERS frames
\* followed by exactly one terminal frame with len = 0.
C1_Original == cyc.phase = "done" => Terminated(out)

\* C1 (amended): while a valid request is being transferred only DATA/HEADERS
\* frames are written; when its cycle is over the frames are zero or more
\* DATA/HEADERS frames followed by exactly one COMPLETED/ERROR frame with
\* len = 0 if the write of the terminal answer succeeded, and DATA/HEADERS
\* frames alone if that write failed.
C1_FrameSequence ==
    /\ cyc.phase = "transfer" => StreamOnly(out)
    /\ cyc.phase = "done" /\ cyc.termok => Terminated(out)
    /\ cyc.phase = "done" /\ ~cyc.termok => StreamOnly(out)

\* A finished cycle with a header frame, two data frames and the terminal.
C1_Witness ==
    /\ cyc.phase = "done" /\ cyc.termok
    /\ Len(out) >= 4
    /\ \E i \in 1..Len(out) : out[i].type = "RANGE_HEADERS"
    /\ \E i \in 1..Len(out) : out[i].type = "RANGE_DATA"

\* C2: with status 206 and every callback write succeeding, the payloads of
\* the DATA frames, concatenated in emission order, are the body bytes the
\* transport delivered.
C2_RoundTrip ==
    (cyc.phase \in {"transfer", "done"} /\ code = 206 /\ ~cyc.wfail)
       => DataPayloads(out) = body

\* C3: after a transfer whose status is not 206, the terminal answer written
\* is ERROR with len = 0.
C3_NonPartialIsError ==
    (cyc.phase = "done" /\ cyc.openok /\ code # 206 /\ cyc.termok)
       => /\ out[Len(out)].type = "RANGE_ERROR"
          /\ out[Len(out)].len = 0

\* C4: with a status other than 206 no DATA frame is written for the request,
\* and every data callback that carries at least one byte writes nothing and
\* returns 0, which stops the transport.
C4_NoDataUnlessPartial ==
    (cyc.openok /\ code # 206)
       => /\ \A i \in 1..Len(out) : out[i].type # "RANGE_DATA"
          /\ (lastcb.kind = "data" /\ lastcb.n > 0)
                => (lastcb.ret = 0 /\ lastcb.frames = 0 /\ stopped)

\* A data callback with bytes was invoked under a status other than 206.
C4_Witness ==
    /\ cyc.openok /\ code # 206
    /\ lastcb.kind = "data" /\ lastcb.n > RANGE_PAYLOAD_SIZE

\* C5: every DATA frame written carries the CRC-32 (initial value 0) of the
\* first len bytes of its own payload, and those bytes are the bytes memcpy
\* copied for the frame.
C5_DataCrc ==
    \A i \in 1..Len(out) :
       out[i].type = "RANGE_DATA"
          => /\ out[i].crc = crc32(<<0, 0>>, SubSeq(out[i].data, 1, out[i].len))
             /\ SubSeq(out[i].data, 1, out[i].len) = copied[i]

\* A short DATA frame written into a buffer that held a full one before.
C5_Witness ==
    \E i, j \in 1..Len(out) :
       /\ i < j
       /\ out[i].type = "RANGE_DATA" /\ out[i].len = RANGE_PAYLOAD_SIZE
       /\ out[j].type = "RANGE_DATA" /\ out[j].len < RANGE_PAYLOAD_SIZE

\* The request the last read left in the buffer fails the length check.
LastReadMalformed ==
    lastread.ret >= 0 /\ (req.urllen + req.rangelen) > lastread.ret

\* This step reads a request that passes the length check and handles it as
\* any request: it opens the channel for it, or writes its terminal answer
\* when open fails, or exits when the URL buffer cannot be allocated.
NormalDispatch ==
    \/ /\ lastread'.outcome = "dispatched"
       /\ priv'.id = req'.id /\ cyc'.rid = req'.id /\ ~stopped'
       /\ \/ pc' = "transfer" /\ chan' = "open" /\ out' = << >>
          \/ /\ pc' = "await" /\ chan' = "closed" /\ cyc'.phase = "done"
             /\ (out' = << >> \/ (Len(out') = 1 /\ Terminated(out')))
    \/ lastread'.outcome = "exit" /\ pc' = "exited" /\ base # NoBase

\* This step is a read that returns a request passing the length check.
ReadsValid ==
    /\ pc = "await"
    /\ lastread'.ret >= 0
    /\ (req'.urllen + req'.rangelen) <= lastread'.ret

\* C6: a read that delivers a request whose urllen + rangelen exceeds the
\* bytes read writes no answer, opens no channel and leaves the worker at
\* read(); the next request, when it passes the length test, is dispatched as usual.
C6_MalformedSkipped ==
    [][ /\ (/\ pc = "await"
            /\ lastread'.ret >= 0
            /\ (req'.urllen + req'.rangelen) > lastread'.ret)
           => (/\ pc' = "await" /\ chan' = "closed"
               /\ out' = << >> /\ answer' = answer
               /\ cyc' = NoCycle /\ lastcb' = NoCallback)
        /\ (LastReadMalformed /\ ReadsValid) => NormalDispatch ]_vars

\* A full frame was read, failed the length check, and the worker is back at
\* read() with nothing written.
C6_Witness ==
    /\ pc = "await"
    /\ lastread.ret = ReqSize
    /\ LastReadMalformed
    /\ out = << >>

\* The URL field of the request in the buffer, up to its terminator.
RequestUrl == CStr(Mem(req.data, << >>), 1)

\* s contains a colon immediately followed by two slashes.
HasSchemeMarker(s) ==
    \E i \in 1..(Len(s) - 2) :
       s[i] = Colon /\ s[i + 1] = Slash /\ s[i + 2] = Slash

\* The first colon of s is immediately followed by two slashes.
FirstColonMarker(s) ==
    \E i \in 1..(Len(s) - 2) :
       /\ s[i] = Colon /\ s[i + 1] = Slash /\ s[i + 2] = Slash
       /\ \A j \in 1..(i - 1) : s[j] # Colon

\* C7 as stated: the URL handed to the transport is base || requestURL exactly
\* when a base is configured and the request URL contains no "://" anywhere,
\* and the request URL itself otherwise.
C7_Original ==
    cyc.phase # "none" =>
       url = IF base # NoBase /\ ~HasSchemeMarker(RequestUrl)
             THEN base \o RequestUrl
             ELSE RequestUrl

\* C7 (amended): the URL handed to the transport is base || requestURL exactly
\* when a base is configured and the first colon of the request URL, if any,
\* is not immediately followed by two slashes; otherwise it is the request
\* URL itself.
C7_FirstColon ==
    cyc.phase # "none" =>
       url = IF base # NoBase /\ ~FirstColonMarker(RequestUrl)
             THEN base \o RequestUrl
             ELSE RequestUrl

\* A base is configured, the request URL holds "://" after an earlier colon,
\* and the base was prepended.
C7_Witness ==
    /\ cyc.phase # "none"
    /\ base # NoBase
    /\ HasSchemeMarker(RequestUrl)
    /\ url = base \o RequestUrl

\* C8: a callback whose write to the IPC fails returns 0 having written only
\* the frames before the failing write; the loop then makes its terminal
\* answer attempt, closes the channel and returns to read(), and the next
\* request that passes the length check is dispatched as usual.
C8_WriteFailureAborts ==
    /\ [](lastcb.failed =>
             /\ lastcb.ret = 0
             /\ lastcb.frames = lastcb.failAt - 1
             /\ stopped)
    /\ [][ /\ (pc = "transfer" /\ cyc.wfail) =>
                 /\ pc' = "await" /\ chan' = "closed"
                 /\ cyc'.phase = "done" /\ cyc'.transfer # "CHANNEL_OK"
                 /\ IsTerminal(answer') /\ answer'.len = 0
                 /\ answer'.id = req.id
                 /\ (out' = out \/ out' = Append(out, answer'))
           /\ (cyc.phase = "done" /\ cyc.wfail /\ ReadsValid)
                 => NormalDispatch ]_vars

\* A chunk spanning several frames failed on its second write, and the loop
\* is back at read() after the terminal answer.
C8_Witness ==
    /\ pc = "await" /\ cyc.phase = "done" /\ cyc.wfail
    /\ lastcb.kind = "data" /\ lastcb.n > RANGE_PAYLOAD_SIZE
    /\ lastcb.failAt = 2
    /\ Terminated(out)

\* C9: the frames written between two reads belong to one dispatch: a read
\* starts a new run of frames, frames are only appended to the run while its
\* transfer is in progress, no terminal frame is written before the transfer
\* has ended, and nothing follows a terminal frame in its run.
C9_NoInterleaving ==
    [][ /\ (pc = "await") =>
              \/ out' = << >>
              \/ Len(out') = 1 /\ IsTerminal(out'[1]) /\ pc' = "await"
        /\ (pc = "transfer") =>
              /\ StreamOnly(out)
              /\ req' = req /\ cyc'.rid = cyc.rid
              /\ Len(out') >= Len(out)
              /\ out = SubSeq(out', 1, Len(out))
              /\ \A i \in 1..(Len(out') - 1) : ~IsTerminal(out'[i])
              /\ (Len(out') > 0 /\ IsTerminal(out'[Len(out')])
                    => pc' = "await")
      ]_vars

\* Two stream frames then the terminal frame of one request, written after an
\* earlier request had been read.
C9_Witness ==
    /\ pc = "await" /\ cyc.phase = "done"
    /\ Len(out) >= 3 /\ Terminated(out)
    /\ cyc.rid = 2

\* C10: every frame written since the last read carries the id of the
\* request that read delivered.
C10_FrameIds ==
    cyc.phase # "none" =>
       /\ cyc.rid = req.id
       /\ \A i \in 1..Len(out) : out[i].id = req.id

\* A finished cycle with a header frame, a data frame and the terminal frame.
C10_Witness ==
    /\ cyc.phase = "done" /\ cyc.termok
    /\ \E i \in 1..Len(out) : out[i].type = "RANGE_HEADERS"
    /\ \E i \in 1..Len(out) : out[i].type = "RANGE_DATA"
    /\ req.id = 1 /\ answer.id = 1

\* C11: every HEADERS frame written for a header line of n bytes has
\* len = min(n, capacity - 2) + 1, and its first len payload bytes are the
\* first min(n, capacity - 2) bytes of the line followed by a NUL.
C11_HeaderNul ==
    /\ \A i \in 1..Len(out) :
          out[i].type = "RANGE_HEADERS" =>
             SubSeq(out[i].data, 1, out[i].len) = copied[i] \o <<NUL>>
    /\ (lastcb.kind = "headers" /\ ~lastcb.failed) =>
          /\ out[Len(out)].len = Min(lastcb.n, RANGE_PAYLOAD_SIZE - 2) + 1
          /\ copied[Len(out)] =
                HeaderLine(Min(lastcb.n, RANGE_PAYLOAD_SIZE - 2))

\* C12: the terminal answer of a dispatched request is COMPLETED exactly when
\* open returned CHANNEL_OK and get_file returned CHANNEL_OK; after a failed
\* open no callback has run, no DATA or HEADERS frame was written and the
\* terminal answer is ERROR.
C12_TerminalType ==
    cyc.phase = "done" =>
       /\ IsTerminal(answer)
       /\ (answer.type = "RANGE_COMPLETED"
             <=> (cyc.openok /\ cyc.transfer = "CHANNEL_OK"))
       /\ cyc.termok => out[Len(out)] = answer
       /\ ~cyc.openok =>
             /\ answer.type = "RANGE_ERROR"
             /\ cyc.transfer = "CHANNEL_EINIT"
             /\ lastcb = NoCallback /\ ncb = 0 /\ body = << >>
             /\ \A i \in 1..Len(out) : ~IsStream(out[i])

\* Open failed and the ERROR answer was written as the only frame.
C12_Witness ==
    /\ cyc.phase = "done" /\ ~cyc.openok /\ cyc.termok
    /\ Len(out) = 1 /\ out[1].type = "RANGE_ERROR"

\* C13: the worker leaves the loop only from the read step, on a read error
\* or when the URL buffer cannot be allocated for a request that passed the
\* length check; a malformed request, a failed open, a failed transfer, an
\* aborting callback and a failed terminal write all leave it at read(),
\* where the next read can be taken.
C13_OnlyReadExits ==
    /\ [](pc = "exited" =>
             /\ lastread.outcome = "exit"
             /\ \/ lastread.ret < 0
                \/ base # NoBase /\ ~LastReadMalformed /\ cyc = NoCycle)
    /\ [](cyc.phase = "done" => pc = "await")
    /\ [](LastReadMalformed => pc = "await")
    /\ [](pc = "await" => ENABLED Read)
    /\ [][ /\ pc' = "exited" => pc = "await"
           /\ pc = "transfer" => pc' \in {"transfer", "await"} ]_vars

\* A transfer whose callback aborted on a write failure, that returned an
\* error and whose terminal write failed too: the worker is at read().
C13_Witness ==
    /\ pc = "await" /\ cyc.phase = "done"
    /\ cyc.wfail /\ stopped /\ cyc.transfer # "CHANNEL_OK" /\ ~cyc.termok

\* C14: when every read after the first returns zero bytes the worker
\* eventually terminates.
C14_EofTerminates == <>(pc = "exited")

\* The frames the last callback invocation wrote.
LastFrames == SubSeq(out, Len(out) - lastcb.frames + 1, Len(out))

RECURSIVE SumLen(_)
SumLen(frames) ==
    IF frames = << >> THEN 0 ELSE Head(frames).len + SumLen(Tail(frames))

\* C15: a data callback invocation with n > 0 bytes, status 206 and no write
\* failure writes ceil(n / capacity) DATA frames, each with
\* 1 <= len <= capacity and all but the last full, whose len values sum to n,
\* and returns n.
C15_ChunkSplit ==
    (/\ pc = "transfer" /\ lastcb.kind = "data" /\ lastcb.n > 0
     /\ code = 206 /\ ~lastcb.failed) =>
       /\ lastcb.frames =
             (lastcb.n + RANGE_PAYLOAD_SIZE - 1) \div RANGE_PAYLOAD_SIZE
       /\ lastcb.frames <= Len(out)
       /\ \A i \in 1..Len(LastFrames) :
             /\ LastFrames[i].type = "RANGE_DATA"
             /\ LastFrames[i].len >= 1
             /\ LastFrames[i].len <= RANGE_PAYLOAD_SIZE
             /\ i < Len(LastFrames) => LastFrames[i].len = RANGE_PAYLOAD_SIZE
       /\ SumLen(LastFrames) = lastcb.n
       /\ lastcb.ret = lastcb.n
       /\ ~stopped

\* A chunk of three frames and one byte was split into four frames.
C15_Witness ==
    /\ pc = "transfer" /\ lastcb.kind = "data" /\ code = 206
    /\ ~lastcb.failed
    /\ lastcb.n = 3 * RANGE_PAYLOAD_SIZE + 1
    /\ lastcb.frames = 4
    /\ out[Len(out)].len = 1

\* C16: every frame written has len no greater than the payload capacity,
\* and every store of a callback into answer->data is at an index below the
\* capacity.
C16_WithinCapacity ==
    /\ \A i \in 1..Len(out) : out[i].len <= RANGE_PAYLOAD_SIZE
    /\ lastcb.top < RANGE_PAYLOAD_SIZE

\* A header line longer than the payload was cut, its NUL stored in the last
\* cell of the payload, and the frame written.
C16_Witness ==
    /\ pc = "transfer" /\ lastcb.kind = "headers" /\ ~lastcb.failed
    /\ lastcb.n > RANGE_PAYLOAD_SIZE
    /\ lastcb.top = RANGE_PAYLOAD_SIZE - 1
    /\ out[Len(out)].len = RANGE_PAYLOAD_SIZE - 1

\* The payload cells the last read delivered.
Delivered == lastread.ret - (ReqSize - RANGE_PAYLOAD_SIZE)

\* The string that starts at payload index i (from 0) ends, with its NUL,
\* inside the payload and inside the cells the last read delivered.
StringFromRead(i) ==
    \E k \in (i + 1)..Min(RANGE_PAYLOAD_SIZE, Delivered) : req.data[k] = NUL

\* C17: for every dispatched request the URL string (payload from index 0)
\* and the range string (payload from index urllen + 1) lie inside the
\* payload buffer and inside the bytes the current read delivered.
C17_StringsFromRead ==
    cyc.phase # "none" =>
       (StringFromRead(0) /\ StringFromRead(req.urllen + 1))

\* C18: when the URL is composed from the base, the bytes written into the
\* composed-URL buffer (base, request URL, NUL) do not exceed the size
\* allocated for it, urllen + length(base) + 1.
C18_ComposeFits ==
    (/\ cyc.phase # "none"
     /\ base # NoBase
     /\ url = base \o RequestUrl) =>
       Len(url) + 1 <= req.urllen + Len(base) + 1

=============================================================================
